---- MODULE Spec2Model ----
(***************************************************************************)
(* Model of the real-time polling backend (src/main.py, src/websocket.py,  *)
(* src/database.py).                                                       *)
(*                                                                         *)
(* Scheduling.  cast_vote and websocket_endpoint are coroutines (async     *)
(* def) that run on the single asyncio event loop uvicorn starts           *)
(* (main.py:200-202); the ConnectionManager is a module-level singleton of *)
(* that process.  A coroutine runs without interruption from one await to  *)
(* the next, so every action below is the code between two awaits.  The    *)
(* awaits are websocket.accept(), websocket.send_text() and                *)
(* websocket.receive_text().  A send_text writes its frame when it is      *)
(* called and may then suspend the caller, so the outcome of a send is     *)
(* fixed by the connection's condition at the call and the caller          *)
(* continues in a later step.  The users, polls and options are the rows   *)
(* the create_user and create_poll requests have committed; no endpoint    *)
(* deletes or changes them.                                                *)
(***************************************************************************)
EXTENDS Integers, Sequences, FiniteSets, TLC

\* ---------------------------------------------------------------- bounds
NumUsers   == 2      \* rows of the users table
NumPolls   == 2      \* rows of the polls table
NumOptions == 2      \* options given to each create_poll
MaxReq     == 2      \* cast_vote calls
MaxObs     == 2      \* websocket channels

Users     == 1..NumUsers            \* users.id, a serial key
Polls     == 1..NumPolls            \* polls.id, a serial key
\* poll_options: options[i] is the poll_id of the option with id i; create_poll
\* adds the options of one poll in one commit, in the order of the request
options   == [i \in 1..(NumPolls * NumOptions) |-> ((i - 1) \div NumOptions) + 1]
UserIds   == 1..(NumUsers + 1)      \* NumUsers + 1 resolves to no user
OptionIds == 1..(Len(options) + 1)  \* the last one resolves to no option
PollIds   == 1..(NumPolls + 1)      \* NumPolls + 1 resolves to no poll
Reqs      == 1..MaxReq
Obs       == 1..MaxObs

VARIABLES
    votes,              \* votes table: sequence of [user_id, poll_option_id]
    updated_at,         \* polls table: the updated_at column, poll_id -> time
    active_connections, \* ConnectionManager.active_connections
    poll_subscribers,   \* ConnectionManager.poll_subscribers: poll_id -> list
    wsPc,               \* websocket_endpoint(o): position of the coroutine
    wsPoll,             \* websocket_endpoint(o): its poll_id path parameter
    wsStale,            \* history: observers already torn down when o subscribed
    wsInFlight,         \* history: broadcasts for its poll suspended when o subscribed
    client,             \* condition of the peer of websocket o
    received,           \* frames written to websocket o, in order
    reqPc,              \* cast_vote(r): position of the coroutine
    reqUser,            \* cast_vote(r): user_id
    reqOption,          \* cast_vote(r): vote.poll_option_id
    reqResult,          \* cast_vote(r): HTTP outcome
    reqData,            \* broadcast_poll_update(r): data
    reqIdx,             \* broadcast_poll_update(r): position of the list iterator
    reqDisc,            \* broadcast_poll_update(r): disconnected
    reqStart            \* history: subscriber list when the broadcast started

mgrVars   == <<active_connections, poll_subscribers>>
wsVars    == <<wsPc, wsPoll, wsStale, wsInFlight, client>>
reqVars   == <<reqPc, reqUser, reqOption, reqResult, reqData, reqIdx, reqDisc,
               reqStart>>
vars      == <<votes, updated_at, mgrVars, wsVars, received, reqVars>>

\* ------------------------------------------------------------ list helpers
Range(s) == {s[i] : i \in 1..Len(s)}

\* list.remove(x): drops the first occurrence of x (x is in s)
Remove(s, x) ==
    LET k == CHOOSE i \in 1..Len(s) : s[i] = x /\ \A j \in 1..(i-1) : s[j] # x
    IN  [i \in 1..(Len(s) - 1) |-> IF i < k THEN s[i] ELSE s[i+1]]

\* the ids in S as a list in ascending order
RECURSIVE Ascending(_)
Ascending(S) ==
    IF S = {} THEN <<>>
    ELSE LET m == CHOOSE x \in S : \A y \in S : x <= y
         IN  <<m>> \o Ascending(S \ {m})

\* ------------------------------------------------------------- Poll store
\* server_default=func.now() (database.py:44-45): the time at which the rows
\* of the polls table were inserted
CreatedAt == 0

\* the user check left out
UserExists_Unchecked(user_id) == TRUE

\* cast_vote lines 135-137
UserExists(user_id) == user_id \in Users

\* cast_vote lines 140-142
OptionExists(option_id) == option_id \in 1..Len(options)

\* get_poll_with_votes lines 106-108
PollExists(poll_id) == poll_id \in Polls

\* the option rows come ordered by their number of votes, most voted first
PollOptionIds_MostVotedFirst(poll_id) ==
    LET S == {i \in 1..Len(options) : options[i] = poll_id}
        n(x) == Cardinality({j \in 1..Len(votes) : votes[j].poll_option_id = x})
        before(y, x) == n(y) > n(x) \/ (n(y) = n(x) /\ y < x)
    IN  [k \in 1..Cardinality(S) |->
            CHOOSE x \in S : Cardinality({y \in S : before(y, x)}) = k - 1]

\* poll.options (database.py:50): the option rows of the poll as the database
\* returns them; the rows are only ever inserted (create_poll lines 83-90, in
\* the order of the request), never updated or deleted, and they come back in
\* the order of their insertion, which is the order of their ids
PollOptionIds(poll_id) ==
    Ascending({i \in 1..Len(options) : options[i] = poll_id})

\* the count takes the votes of all options of the option's poll
VoteCount_PollRows(v, option_id) ==
    Cardinality({i \in 1..Len(v) : options[v[i].poll_option_id] = options[option_id]})

\* len(option.voters) over the votes table v
VoteCount(v, option_id) ==
    Cardinality({i \in 1..Len(v) : v[i].poll_option_id = option_id})

\* get_poll_with_votes for an existing poll, read from the votes table v
get_poll_with_votes(poll_id, v) ==
    LET ids == PollOptionIds(poll_id)
    IN  [id |-> poll_id,
         updated_at |-> updated_at[poll_id],
         options |-> [k \in 1..Len(ids) |->
                        [id |-> ids[k], vote_count |-> VoteCount(v, ids[k])]]]

\* the scan compares with the requested option instead of the poll's options
AlreadyVoted_SameOption(user_id, option_id) ==
    \E i \in 1..Len(votes) :
        /\ votes[i].user_id = user_id
        /\ votes[i].poll_option_id = option_id

\* the snapshot is built before the vote is committed
SnapshotSource_BeforeCommit(before, after) == before

\* cast_vote lines 157-160: get_poll_with_votes runs after db.commit, on the
\* same session, so of the votes table before and after the commit it reads
\* the latter
SnapshotSource(before, after) == after

\* the scan runs over the options of every poll
AlreadyVoted_AnyPoll(user_id, option_id) ==
    \E i \in 1..Len(votes) : votes[i].user_id = user_id

\* cast_vote lines 144-152: some vote row of the user is for an option of the
\* poll that option_id belongs to
AlreadyVoted(user_id, option_id) ==
    LET poll_option_ids_for_poll == Range(PollOptionIds(options[option_id]))
    IN  \E i \in 1..Len(votes) :
            /\ votes[i].user_id = user_id
            /\ votes[i].poll_option_id \in poll_option_ids_for_poll

\* cast_vote line 155: poll_option in user.voted_options
InVotedOptions(user_id, option_id) ==
    \E i \in 1..Len(votes) :
        votes[i] = [user_id |-> user_id, poll_option_id |-> option_id]

\* ------------------------------------------------------ ConnectionManager
\* disconnect without the loop over poll_subscribers
disconnect_ActiveOnly(active, subs, websocket) ==
    <<IF websocket \in Range(active) THEN Remove(active, websocket) ELSE active,
      subs>>

\* disconnect: the registry <<active_connections, poll_subscribers>> after it
disconnect(active, subs, websocket) ==
    <<IF websocket \in Range(active) THEN Remove(active, websocket) ELSE active,
      [p \in DOMAIN subs |->
          IF websocket \in Range(subs[p]) THEN Remove(subs[p], websocket)
          ELSE subs[p]]>>

\* the connection is appended without the membership test
subscribe_to_poll_Unchecked(subs, poll_id, websocket) ==
    LET withKey == [p \in DOMAIN subs \cup {poll_id} |->
                       IF p \in DOMAIN subs THEN subs[p] ELSE <<>>]
    IN  [withKey EXCEPT ![poll_id] = Append(@, websocket)]

\* list.remove(x) raises ValueError when x is not in the list
RemoveRaises(s, x) == x \notin Range(s)

\* both removals run without their membership tests
disconnect_raises_Unguarded(active, subs, websocket) ==
    \/ RemoveRaises(active, websocket)
    \/ \E p \in DOMAIN subs : RemoveRaises(subs[p], websocket)

\* disconnect: whether one of its list.remove calls raises; each call runs
\* only under its `in` test (lines 15 and 19)
disconnect_raises(active, subs, websocket) ==
    \/ websocket \in Range(active) /\ RemoveRaises(active, websocket)
    \/ \E p \in DOMAIN subs :
          websocket \in Range(subs[p]) /\ RemoveRaises(subs[p], websocket)

\* subscribe_to_poll: poll_subscribers after it
subscribe_to_poll(subs, poll_id, websocket) ==
    LET withKey == [p \in DOMAIN subs \cup {poll_id} |->
                       IF p \in DOMAIN subs THEN subs[p] ELSE <<>>]
    IN  IF websocket \in Range(withKey[poll_id]) THEN withKey
        ELSE [withKey EXCEPT ![poll_id] = Append(@, websocket)]

\* broadcast_poll_update lines 38-39: the list after the removals that ran, and
\* whether one of them raised ValueError (list.remove of an absent element)
RECURSIVE Cleanup(_, _)
Cleanup(list, disconnected) ==
    IF disconnected = <<>> THEN [list |-> list, raised |-> FALSE]
    ELSE IF Head(disconnected) \notin Range(list)
         THEN [list |-> list, raised |-> TRUE]
         ELSE Cleanup(Remove(list, Head(disconnected)), Tail(disconnected))

\* the broadcast goes to every connection
Subscribers_Active(poll_id) == active_connections

\* broadcast_poll_update lines 29-31: the list a broadcast for poll_id iterates
\* (no key: nothing to do)
Subscribers(poll_id) ==
    IF poll_id \in DOMAIN poll_subscribers THEN poll_subscribers[poll_id]
    ELSE <<>>

\* every payload is built with the type of the broadcast payload
Frame_UpdateType(type, data, r) == [type |-> "poll_update", poll |-> data, req |-> r]

\* the payloads of main.py:161-164 and main.py:181-184; req names the call
\* that sent the frame (0: websocket_endpoint)
Frame(type, data, r) == [type |-> type, poll |-> data, req |-> r]

\* a send that raised is tried again on the same connection: the iterator
\* stays where it is and the connection is not put in disconnected
BroadcastStep_RetryFailed(r, data, idx, disconnected) ==
    LET list == Subscribers(data.id)
    IN  IF idx < Len(list)
        THEN LET connection == list[idx + 1]
                 ok == client[connection] = "open"
             IN  /\ reqIdx' = [reqIdx EXCEPT ![r] = IF ok THEN idx + 1 ELSE idx]
                 /\ received' = IF ok
                                THEN [received EXCEPT ![connection] =
                                        Append(@, Frame("poll_update", data, r))]
                                ELSE received
                 /\ reqDisc' = [reqDisc EXCEPT ![r] = disconnected]
                 /\ reqPc' = [reqPc EXCEPT ![r] = "sending"]
                 /\ reqResult' = reqResult
                 /\ poll_subscribers' = poll_subscribers
        ELSE LET c == Cleanup(list, disconnected)
             IN  /\ reqIdx' = [reqIdx EXCEPT ![r] = idx]
                 /\ received' = received
                 /\ reqDisc' = [reqDisc EXCEPT ![r] = disconnected]
                 /\ reqPc' = [reqPc EXCEPT ![r] = "done"]
                 /\ reqResult' = [reqResult EXCEPT ![r] =
                                    IF c.raised THEN "500" ELSE "200"]
                 /\ poll_subscribers' =
                        IF data.id \in DOMAIN poll_subscribers
                        THEN [poll_subscribers EXCEPT ![data.id] = c.list]
                        ELSE poll_subscribers

\* broadcast_poll_update from the list iterator's next() up to the next await:
\* either the next send_text is called (and the coroutine suspends in it), or
\* the loop is over, the cleanup runs and cast_vote builds its response.
BroadcastStep(r, data, idx, disconnected) ==
    LET list == Subscribers(data.id)
    IN  IF idx < Len(list)
        THEN LET connection == list[idx + 1]
                 ok == client[connection] = "open"
             IN  /\ reqIdx' = [reqIdx EXCEPT ![r] = idx + 1]
                 /\ received' = IF ok
                                THEN [received EXCEPT ![connection] =
                                        Append(@, Frame("poll_update", data, r))]
                                ELSE received
                 /\ reqDisc' = [reqDisc EXCEPT ![r] =
                                  IF ok THEN disconnected
                                  ELSE Append(disconnected, connection)]
                 /\ reqPc' = [reqPc EXCEPT ![r] = "sending"]
                 /\ reqResult' = reqResult
                 /\ poll_subscribers' = poll_subscribers
        ELSE LET c == Cleanup(list, disconnected)
             IN  /\ reqIdx' = [reqIdx EXCEPT ![r] = idx]
                 /\ received' = received
                 /\ reqDisc' = [reqDisc EXCEPT ![r] = disconnected]
                 /\ reqPc' = [reqPc EXCEPT ![r] = "done"]
                 /\ reqResult' = [reqResult EXCEPT ![r] =
                                    IF c.raised THEN "500" ELSE "200"]
                 /\ poll_subscribers' =
                        IF data.id \in DOMAIN poll_subscribers
                        THEN [poll_subscribers EXCEPT ![data.id] = c.list]
                        ELSE poll_subscribers

\* ------------------------------------------------------------------- Init
NoData == [id |-> 0, updated_at |-> 0, options |-> <<>>]

Init ==
    /\ votes = <<>>
    /\ updated_at = [p \in Polls |-> CreatedAt]
    /\ active_connections = <<>>
    /\ poll_subscribers = <<>>
    /\ wsPc = [o \in Obs |-> "idle"]
    /\ wsPoll = [o \in Obs |-> 0]
    /\ wsStale = [o \in Obs |-> {}]
    /\ wsInFlight = [o \in Obs |-> {}]
    /\ client = [o \in Obs |-> "open"]
    /\ received = [o \in Obs |-> <<>>]
    /\ reqPc = [r \in Reqs |-> "idle"]
    /\ reqUser = [r \in Reqs |-> 0]
    /\ reqOption = [r \in Reqs |-> 0]
    /\ reqResult = [r \in Reqs |-> "none"]
    /\ reqData = [r \in Reqs |-> NoData]
    /\ reqIdx = [r \in Reqs |-> 0]
    /\ reqDisc = [r \in Reqs |-> <<>>]
    /\ reqStart = [r \in Reqs |-> <<>>]

\* ---------------------------------------------------------------- actions
\* the call answers with the status, and before that every connection whose
\* peer is there is sent a poll_update frame
Reject_WithUpdate(r, status) ==
    /\ reqResult' = [reqResult EXCEPT ![r] = status]
    /\ reqPc' = [reqPc EXCEPT ![r] = "done"]
    /\ received' = [o \in Obs |->
          IF o \in Range(active_connections) /\ client[o] = "open"
          THEN Append(received[o], Frame("poll_update", NoData, r))
          ELSE received[o]]
    /\ UNCHANGED <<votes, updated_at, poll_subscribers, reqData, reqIdx,
                   reqDisc, reqStart>>

\* cast_vote lines 137, 142 and 152: raise HTTPException(status_code=status)
\* ends the call before the commit and before the broadcast
Reject(r, status) ==
    /\ reqResult' = [reqResult EXCEPT ![r] = status]
    /\ reqPc' = [reqPc EXCEPT ![r] = "done"]
    /\ UNCHANGED <<votes, updated_at, poll_subscribers, received, reqData,
                   reqIdx, reqDisc, reqStart>>

\* cast_vote lines 133-161, up to the first await inside the broadcast; the
\* calls are numbered in the order in which they start
cast_vote(r, user_id, option_id) ==
    /\ reqPc[r] = "idle"
    /\ \A q \in Reqs : q < r => reqPc[q] # "idle"
    /\ reqUser' = [reqUser EXCEPT ![r] = user_id]
    /\ reqOption' = [reqOption EXCEPT ![r] = option_id]
    /\ IF ~UserExists(user_id) \/ ~OptionExists(option_id)
       THEN Reject(r, "404")
       ELSE IF AlreadyVoted(user_id, option_id)
       THEN Reject(r, "400")
       ELSE LET v == IF InVotedOptions(user_id, option_id) THEN votes
                     ELSE Append(votes, [user_id |-> user_id,
                                         poll_option_id |-> option_id])
                poll_data == get_poll_with_votes(options[option_id],
                                                 SnapshotSource(votes, v))
            IN  /\ votes' = v
                \* lines 156-157 insert a row of the votes table and nothing
                \* else: no UPDATE of the polls row is issued, so the row's
                \* onupdate=func.now() (database.py:45) does not run
                /\ updated_at' = updated_at
                /\ reqData' = [reqData EXCEPT ![r] = poll_data]
                /\ reqStart' = [reqStart EXCEPT ![r] = Subscribers(poll_data.id)]
                /\ BroadcastStep(r, poll_data, 0, <<>>)
    /\ UNCHANGED <<active_connections, wsVars>>

\* broadcast_poll_update: a send_text returned or raised, the loop goes on
broadcast_poll_update(r) ==
    /\ reqPc[r] = "sending"
    /\ BroadcastStep(r, reqData[r], reqIdx[r], reqDisc[r])
    /\ UNCHANGED <<votes, updated_at, active_connections, wsVars, reqUser,
                   reqOption, reqData, reqStart>>

\* websocket_endpoint lines 175-188 with connect: the handshake, then without
\* an await registration, subscription, snapshot and the call of send_text for
\* initial_data; the coroutine then waits in send_text or receive_text.  An
\* exception of get_poll_with_votes (no such poll) or of send_text (the peer
\* went away during the handshake: alive = FALSE) ends in disconnect.  The
\* websockets are numbered in the order in which they are accepted.
websocket_endpoint(o, poll_id, alive) ==
    /\ wsPc[o] = "idle"
    /\ \A q \in Obs : q < o => wsPc[q] # "idle"
    /\ wsPoll' = [wsPoll EXCEPT ![o] = poll_id]
    /\ wsStale' = [wsStale EXCEPT ![o] = {q \in Obs : wsPc[q] = "done"}]
    /\ wsInFlight' = [wsInFlight EXCEPT ![o] =
          {r \in Reqs : reqPc[r] = "sending" /\ reqData[r].id = poll_id}]
    /\ client' = [client EXCEPT ![o] = IF alive THEN "open" ELSE "closed"]
    /\ LET active == Append(active_connections, o)
           subs == subscribe_to_poll(poll_subscribers, poll_id, o)
       IN  IF PollExists(poll_id) /\ alive
           THEN /\ active_connections' = active
                /\ poll_subscribers' = subs
                /\ received' = [received EXCEPT ![o] = Append(@,
                       Frame("initial_data",
                             get_poll_with_votes(poll_id, votes), 0))]
                /\ wsPc' = [wsPc EXCEPT ![o] = "listening"]
           ELSE /\ active_connections' = disconnect(active, subs, o)[1]
                /\ poll_subscribers' = disconnect(active, subs, o)[2]
                /\ received' = received
                /\ wsPc' = [wsPc EXCEPT ![o] = "done"]
    /\ UNCHANGED <<votes, updated_at, reqVars>>

\* websocket_endpoint lines 189-193: receive_text raised, disconnect runs
websocket_disconnect(o) ==
    /\ wsPc[o] = "listening"
    /\ client[o] = "closed"
    /\ active_connections' = disconnect(active_connections, poll_subscribers, o)[1]
    /\ poll_subscribers' = disconnect(active_connections, poll_subscribers, o)[2]
    /\ wsPc' = [wsPc EXCEPT ![o] = "done"]
    /\ UNCHANGED <<votes, updated_at, wsPoll, wsStale, wsInFlight, client,
                   received, reqVars>>

\* the peer of websocket o closes or loses its connection
client_close(o) ==
    /\ wsPc[o] = "listening"
    /\ client[o] = "open"
    /\ client' = [client EXCEPT ![o] = "closed"]
    /\ UNCHANGED <<votes, updated_at, mgrVars, wsPc, wsPoll, wsStale, wsInFlight,
                   received, reqVars>>

Next ==
    \/ \E r \in Reqs, user_id \in UserIds, option_id \in OptionIds :
           cast_vote(r, user_id, option_id)
    \/ \E r \in Reqs : broadcast_poll_update(r)
    \/ \E o \in Obs, poll_id \in PollIds, alive \in BOOLEAN :
           websocket_endpoint(o, poll_id, alive)
    \/ \E o \in Obs : websocket_disconnect(o)
    \/ \E o \in Obs : client_close(o)

Spec == Init /\ [][Next]_vars

\* The event loop resumes a coroutine once the send_text it awaits has
\* completed or raised: a broadcast that is suspended in a send is eventually
\* given its next step.  Requests and connections arrive as they please.
FairSpec == Spec /\ \A r \in Reqs : WF_vars(broadcast_poll_update(r))

TypeOK ==
    /\ \A o \in Obs : wsPc[o] \in {"idle", "listening", "done"}
    /\ \A r \in Reqs : reqPc[r] \in {"idle", "sending", "done"}
    /\ \A r \in Reqs : reqResult[r] \in {"none", "200", "400", "404", "500"}

\* ------------------------------------------------------------- properties
\* vote rows of user u for the options of poll p
VotesInPoll(u, p) ==
    {i \in 1..Len(votes) : votes[i].user_id = u /\ options[votes[i].poll_option_id] = p}

\* vote rows that link user u and option x
VoteRows(v, u, x) ==
    {i \in 1..Len(v) : v[i].user_id = u /\ v[i].poll_option_id = x}

\* cast_vote calls made so far by user u for an existing option of poll p
CallsFor(u, p) ==
    {r \in Reqs : /\ reqPc[r] # "idle"
                  /\ reqUser[r] = u
                  /\ reqOption[r] \in 1..Len(options)
                  /\ options[reqOption[r]] = p}

\* this step is the start of cast_vote call r
CastStep(r) == reqPc[r] = "idle" /\ reqPc'[r] # "idle"

\* poll_update frames of call r among the frames written to websocket o
UpdatesFrom(o, r) ==
    {i \in 1..Len(received[o]) :
        received[o][i].type = "poll_update" /\ received[o][i].req = r}

\* C1: among the cast_vote calls one user has made for options of one poll,
\* one call inserted its vote and every call for another option than that one
\* was rejected with DuplicateVote (400); no user holds more than one vote
\* among the options of one poll.
C1_OneVotePerUserPerPoll ==
    \A u \in Users, p \in Polls :
        /\ Cardinality(VotesInPoll(u, p)) <= 1
        /\ CallsFor(u, p) # {} =>
              \E w \in CallsFor(u, p) :
                  /\ reqResult[w] \notin {"400", "404"}
                  /\ VotesInPoll(u, p) # {}
                  /\ \A i \in VotesInPoll(u, p) : votes[i].poll_option_id = reqOption[w]
                  /\ \A r \in CallsFor(u, p) :
                        reqOption[r] # reqOption[w] => reqResult[r] = "400"

C1_Witness ==
    \E r1, r2 \in Reqs :
        /\ reqPc[r1] # "idle" /\ reqPc[r2] # "idle"
        /\ reqUser[r1] = reqUser[r2] /\ reqUser[r1] \in Users
        /\ reqOption[r1] \in 1..Len(options) /\ reqOption[r2] \in 1..Len(options)
        /\ reqOption[r1] # reqOption[r2]
        /\ options[reqOption[r1]] = options[reqOption[r2]]
        /\ reqResult[r1] = "200" /\ reqResult[r2] = "400"

\* C2: when the same (user, option) vote is cast twice, the second cast_vote
\* returns success as the first did, and one vote fact is stored.
C2_RepeatSucceeds ==
    \A r1, r2 \in Reqs :
        ( /\ r1 < r2
          /\ reqPc[r1] = "done" /\ reqPc[r2] = "done"
          /\ reqUser[r1] = reqUser[r2] /\ reqOption[r1] = reqOption[r2]
          /\ reqResult[r1] = "200" )
        => /\ reqResult[r2] = "200"
           /\ Cardinality(VoteRows(votes, reqUser[r1], reqOption[r1])) = 1

\* C7: a cast_vote by a user who holds a vote for a different option of the
\* same poll is rejected with DuplicateVote (400) and leaves the votes table
\* as it was.
C7_OtherOptionRejected ==
    [][\A r \in Reqs :
          ( /\ CastStep(r)
            /\ reqOption'[r] \in 1..Len(options)
            /\ \E i \in 1..Len(votes) :
                  /\ votes[i].user_id = reqUser'[r]
                  /\ votes[i].poll_option_id # reqOption'[r]
                  /\ options[votes[i].poll_option_id] = options[reqOption'[r]] )
          => /\ reqResult'[r] = "400"
             /\ reqPc'[r] = "done"
             /\ votes' = votes]_vars

C7_Witness ==
    \E r \in Reqs :
        /\ reqResult[r] = "400"
        /\ VoteRows(votes, reqUser[r], reqOption[r]) = {}
        /\ \E i \in 1..Len(votes) :
              /\ votes[i].user_id = reqUser[r]
              /\ votes[i].poll_option_id # reqOption[r]
              /\ options[votes[i].poll_option_id] = options[reqOption[r]]

\* C8: a cast_vote whose user_id is no user's id or whose option_id is no
\* option's id fails with NotFound (404) and leaves the votes table as it was.
C8_UnknownIdsNotFound ==
    [][\A r \in Reqs :
          ( /\ CastStep(r)
            /\ (reqUser'[r] \notin Users \/ reqOption'[r] \notin 1..Len(options)) )
          => /\ reqResult'[r] = "404"
             /\ reqPc'[r] = "done"
             /\ votes' = votes]_vars

C8_Witness ==
    \E r1, r2 \in Reqs :
        /\ reqResult[r1] = "404" /\ reqUser[r1] \notin Users
        /\ reqResult[r2] = "404" /\ reqUser[r2] \in Users
        /\ reqOption[r2] \notin 1..Len(options)
        /\ votes = <<>>

C5_UpdatesOnlyForOwnPoll ==
    \A o \in Obs : \A i \in 1..Len(received[o]) :
        received[o][i].type = "poll_update" => received[o][i].poll.id = wsPoll[o]

C5_Witness ==
    \E o1, o2 \in Obs : \E r1, r2 \in Reqs :
        /\ wsPoll[o1] # wsPoll[o2]
        /\ r1 < r2
        /\ reqData[r1].id = wsPoll[o1] /\ reqData[r2].id = wsPoll[o2]
        /\ UpdatesFrom(o1, r1) # {} /\ UpdatesFrom(o2, r2) # {}
        /\ o1 \in Range(Subscribers(wsPoll[o1]))
        /\ reqPc[r2] = "done"

\* C6: an observer whose disconnect has run is in no poll's subscriber list
\* and not in active_connections, also after a fresh observer has subscribed
\* to the same poll id.
C6_DisconnectedStaysOut ==
    \A o \in Obs :
        wsPc[o] = "done" =>
            /\ o \notin Range(active_connections)
            /\ \A p \in DOMAIN poll_subscribers : o \notin Range(poll_subscribers[p])

C6_Witness ==
    \E o1, o2 \in Obs :
        /\ wsPc[o1] = "done" /\ received[o1] # <<>>
        /\ o1 \in wsStale[o2]
        /\ wsPoll[o1] = wsPoll[o2]
        /\ o2 \in Range(Subscribers(wsPoll[o2]))

VotersOf(x) == {u \in UserIds : \E i \in 1..Len(votes) :
                   votes[i].user_id = u /\ votes[i].poll_option_id = x}

\* users whose cast_vote for option x was not rejected
VotedFor(x) == {reqUser[r] : r \in {q \in Reqs : /\ reqPc[q] # "idle"
                                                 /\ reqOption[q] = x
                                                 /\ reqResult[q] \notin {"400", "404"}}}

\* C13: in the snapshot of a poll every option's vote_count is the number of
\* distinct users that hold a vote for it, which is the number of distinct
\* users whose vote for it went through; a cast_vote that inserts a vote
\* raises the count of its option by one and changes no other option's count.
C13_CountsAreDistinctVoters ==
    /\ [](\A p \in Polls :
            LET snap == get_poll_with_votes(p, votes)
            IN  \A k \in 1..Len(snap.options) :
                    /\ snap.options[k].vote_count =
                           Cardinality(VotersOf(snap.options[k].id))
                    /\ snap.options[k].vote_count =
                           Cardinality(VotedFor(snap.options[k].id)))
    /\ [][\A r \in Reqs :
            (CastStep(r) /\ votes' # votes) =>
                \A p \in Polls :
                    LET old == get_poll_with_votes(p, votes)
                        new == get_poll_with_votes(p, votes')
                    IN  /\ Len(new.options) = Len(old.options)
                        /\ \A k \in 1..Len(old.options) :
                              /\ new.options[k].id = old.options[k].id
                              /\ new.options[k].vote_count =
                                    old.options[k].vote_count +
                                    (IF old.options[k].id = reqOption'[r] THEN 1 ELSE 0)]_vars

C13_Witness ==
    \E p \in Polls :
        LET snap == get_poll_with_votes(p, votes)
        IN  /\ \E k \in 1..Len(snap.options) :
                  /\ snap.options[k].vote_count = 2
                  /\ Cardinality(VotedFor(snap.options[k].id)) = 2
            /\ \E k \in 1..Len(snap.options) : snap.options[k].vote_count = 0
            /\ \A r \in Reqs : reqPc[r] = "done"

\* the position in the votes table of the row cast_vote call r inserted
RowOf(r) ==
    CHOOSE j \in 1..Len(votes) :
        votes[j] = [user_id |-> reqUser[r], poll_option_id |-> reqOption[r]]

\* C14: every poll_update frame a cast_vote call has sent carries the snapshot
\* of the poll read from the votes table as it was right after the call's own
\* row was committed, so the frame counts the vote the call cast.
C14_FrameCountsOwnVote ==
    \A o \in Obs : \A i \in 1..Len(received[o]) :
        received[o][i].type = "poll_update" =>
            LET r == received[o][i].req
            IN  /\ VoteRows(votes, reqUser[r], reqOption[r]) # {}
                /\ received[o][i].poll =
                      get_poll_with_votes(options[reqOption[r]],
                                          SubSeq(votes, 1, RowOf(r)))
                /\ \E k \in 1..Len(received[o][i].poll.options) :
                      /\ received[o][i].poll.options[k].id = reqOption[r]
                      /\ received[o][i].poll.options[k].vote_count >= 1

C14_Witness ==
    \E o \in Obs : \E r1, r2 \in Reqs :
        /\ r1 < r2
        /\ UpdatesFrom(o, r2) # {}
        /\ VoteRows(votes, reqUser[r1], reqOption[r1]) # {}
        /\ RowOf(r1) < RowOf(r2)
        /\ options[reqOption[r1]] = options[reqOption[r2]]
        /\ reqPc[r2] = "done"

\* the total of the vote counts in a snapshot's options list
RECURSIVE TotalVotes(_)
TotalVotes(opts) ==
    IF opts = <<>> THEN 0
    ELSE Head(opts).vote_count + TotalVotes(Tail(opts))

NoDuplicates(s) == \A i, j \in 1..Len(s) : s[i] = s[j] => i = j

\* C17: subscribing an observer to a poll it is already subscribed to leaves
\* poll_subscribers unchanged (subscribe_to_poll applied twice equals it
\* applied once); no subscriber list holds an observer twice, and no observer
\* is sent two frames by one broadcast.
C17_SubscribeIdempotent ==
    /\ \A o \in Obs, p \in Polls :
          LET once == subscribe_to_poll(poll_subscribers, p, o)
          IN  /\ subscribe_to_poll(once, p, o) = once
              /\ o \in Range(Subscribers(p)) => once = poll_subscribers
    /\ \A p \in DOMAIN poll_subscribers : NoDuplicates(poll_subscribers[p])
    /\ \A o \in Obs, r \in Reqs : Cardinality(UpdatesFrom(o, r)) <= 1

C17_Witness ==
    \E o \in Obs, r \in Reqs :
        /\ o \in Range(Subscribers(wsPoll[o]))
        /\ subscribe_to_poll(poll_subscribers, wsPoll[o], o) = poll_subscribers
        /\ reqPc[r] = "done"
        /\ UpdatesFrom(o, r) # {}

\* C18: disconnect never raises, whatever the observer's place in the
\* registry, and a second disconnect changes nothing: for an observer whose
\* disconnect already ran, or that never connected, both lists stay as they
\* are; for an observer in no subscriber list (removed by the broadcaster's
\* cleanup, or never subscribed) poll_subscribers stays as it is.
C18_DisconnectRepeatable ==
    \A o \in Obs :
        LET d == disconnect(active_connections, poll_subscribers, o)
        IN  /\ ~disconnect_raises(active_connections, poll_subscribers, o)
            /\ ~disconnect_raises(d[1], d[2], o)
            /\ disconnect(d[1], d[2], o) = d
            /\ wsPc[o] \in {"idle", "done"} =>
                  d = <<active_connections, poll_subscribers>>
            /\ (\A p \in DOMAIN poll_subscribers :
                    o \notin Range(poll_subscribers[p])) =>
                  d[2] = poll_subscribers

C18_Witness ==
    \E o, q \in Obs :
        /\ wsPc[o] = "done" /\ received[o] # <<>>
        /\ wsPc[q] = "listening"
        /\ q \in Range(active_connections)
        /\ q \notin Range(Subscribers(wsPoll[q]))

\* the snapshot lists exactly the options of its poll, in the order of their
\* creation (options are numbered in that order)
InCreationOrder(snapshot) ==
    /\ {snapshot.options[k].id : k \in DOMAIN snapshot.options}
          = {i \in 1..Len(options) : options[i] = snapshot.id}
    /\ \A j, k \in DOMAIN snapshot.options :
          j < k => snapshot.options[j].id < snapshot.options[k].id

C20_VoteAdvancesUpdatedAt ==
    [][\A r \in Reqs :
          (CastStep(r) /\ votes' # votes) =>
              /\ updated_at'[options[reqOption'[r]]]
                    > updated_at[options[reqOption'[r]]]
              /\ reqData'[r].updated_at > updated_at[options[reqOption'[r]]]]_vars

\* C21: a nonempty subscriber list is the list of an existing poll, and an
\* observer whose channel was opened for a poll id that does not exist is in
\* no subscriber list and not in active_connections once websocket_endpoint
\* has handled it (it is sent nothing, and its handler has ended).
C21_SubscriptionsNameExistingPolls ==
    /\ \A p \in DOMAIN poll_subscribers :
          poll_subscribers[p] # <<>> => PollExists(p)
    /\ \A o \in Obs :
          (wsPc[o] # "idle" /\ ~PollExists(wsPoll[o])) =>
              /\ wsPc[o] = "done"
              /\ received[o] = <<>>
              /\ o \notin Range(active_connections)
              /\ \A p \in DOMAIN poll_subscribers :
                    o \notin Range(poll_subscribers[p])

C21_Witness ==
    \E o, q \in Obs :
        /\ wsPc[o] = "done" /\ ~PollExists(wsPoll[o])
        /\ wsPoll[o] \in DOMAIN poll_subscribers
        /\ wsPc[q] = "listening"
        /\ q \in Range(Subscribers(wsPoll[q]))

\* C22: under FairSpec (every send completes or fails, so a suspended
\* broadcast is resumed) every cast_vote that has started returns: its
\* broadcast leaves the delivery loop, runs the cleanup and the call ends with
\* a response, whatever subscribes, disconnects and other votes come between.
C22_EveryVoteReturns ==
    \A r \in Reqs :
        (reqPc[r] # "idle") ~>
            (reqPc[r] = "done" /\ reqResult[r] \in {"200", "400", "404", "500"})

C22_Witness ==
    \E r \in Reqs, o, q \in Obs :
        /\ reqPc[r] = "done"
        /\ r \in wsInFlight[o]
        /\ UpdatesFrom(o, r) # {}
        /\ q \in Range(reqStart[r])
        /\ wsPc[q] = "done"

\* C23: every observer in a poll's subscriber list is in active_connections,
\* and an observer in active_connections that is in no subscriber list is one
\* that a broadcast's cleanup took out of its poll's list after a failed send.
C23_SubscribersAreConnected ==
    /\ \A p \in DOMAIN poll_subscribers :
          \A o \in Range(poll_subscribers[p]) : o \in Range(active_connections)
    /\ \A o \in Range(active_connections) :
          o \notin Range(Subscribers(wsPoll[o])) =>
              \E r \in Reqs : reqPc[r] = "done" /\ o \in Range(reqDisc[r])

C23_Witness ==
    \E o, q \in Obs, r \in Reqs :
        /\ o \in Range(Subscribers(wsPoll[o]))
        /\ o \in Range(active_connections)
        /\ reqPc[r] = "done"
        /\ q \in Range(reqDisc[r])
        /\ q \in Range(active_connections)
        /\ q \notin Range(Subscribers(wsPoll[q]))

\* C24: a cast_vote of an existing user for an existing option of a poll in
\* which the user holds no vote is not rejected, whatever votes the user holds
\* in other polls: the step inserts the vote row and the call does not answer
\* 400 or 404; and a call that answered 400 is one whose user holds a vote in
\* the poll of the requested option.
C24_CheckScopedToPoll ==
    /\ [](\A r \in Reqs :
            reqResult[r] = "400" =>
                VotesInPoll(reqUser[r], options[reqOption[r]]) # {})
    /\ [][\A r \in Reqs :
            ( /\ CastStep(r)
              /\ reqUser'[r] \in Users
              /\ reqOption'[r] \in 1..Len(options)
              /\ VotesInPoll(reqUser'[r], options[reqOption'[r]]) = {} )
            => /\ votes' = Append(votes, [user_id |-> reqUser'[r],
                                          poll_option_id |-> reqOption'[r]])
               /\ reqResult'[r] \notin {"400", "404"}]_vars

C24_Witness ==
    \E r \in Reqs :
        /\ reqResult[r] = "200"
        /\ Len(votes) = 2
        /\ votes[2] = [user_id |-> reqUser[r], poll_option_id |-> reqOption[r]]
        /\ votes[1].user_id = reqUser[r]
        /\ options[votes[1].poll_option_id] # options[reqOption[r]]

\* C25: a cast_vote that is rejected (404 or 400) writes no frame to any
\* observer and leaves poll_subscribers, active_connections and the votes
\* table as they were; no poll_update frame ever comes from a rejected call.
C25_RejectedVoteHasNoEffect ==
    /\ [](\A r \in Reqs :
            reqResult[r] \in {"400", "404"} =>
                /\ reqStart[r] = <<>> /\ reqData[r] = NoData
                /\ \A o \in Obs : UpdatesFrom(o, r) = {})
    /\ [][\A r \in Reqs :
            (CastStep(r) /\ reqResult'[r] \in {"400", "404"}) =>
                /\ received' = received
                /\ poll_subscribers' = poll_subscribers
                /\ active_connections' = active_connections
                /\ votes' = votes]_vars

C25_Witness ==
    \E r, q \in Reqs, o \in Obs :
        /\ reqResult[r] = "400"
        /\ reqResult[q] = "200"
        /\ UpdatesFrom(o, q) # {}
        /\ wsPc[o] = "listening" /\ client[o] = "open"
        /\ wsPoll[o] = options[reqOption[r]]
        /\ o \in Range(Subscribers(wsPoll[o]))
====
